---- MODULE Spec2Model ----
(***************************************************************************)
(* Model of the bpsense driver (src/src/bpsense.c, main).  The program is  *)
(* one thread of control; pc is the position in main, every action is one  *)
(* statement group of main.  Arrays are flat memories (functions from      *)
(* 0..size-1 to samples) together with the shape vectors main keeps for    *)
(* them.  Library routines that main calls (load_cfl, md_select_dims,      *)
(* estimate_pattern, fftmod, bpsense_recon, ...) live outside             *)
(* src/src/bpsense.c; they are modelled by their documented contract.     *)
(***************************************************************************)
EXTENDS Integers, FiniteSets, Sequences, TLC

VARIABLES
    pc,            \* position in main / how the process ended
    usegpu,        \* -g
    psf,           \* -p given (psf != NULL)
    im_truth,      \* -F given
    use_tvnorm,    \* -t
    conf,          \* struct bpsense_conf with *conf.iconf folded in
    ksp_dims, dims, dims1, img_dims, pat_dims, img_truth_dims,
    kspace_data, sens_maps, pattern, image, image_truth,
    ksp_file,      \* contents of the <kspace> input as loaded (never written)
    pat_alloc,     \* number of samples the pattern buffer really holds
    scaling,       \* result of estimate_scaling
    minsize,
    l1op, l1prox,  \* object ids of the analysis and proximal operator
    heap,          \* operator objects: id -> record, or NoObj
    res,           \* resource id -> "none" | "live" | "released"
    nfree,         \* resource id -> number of times it was released
    out_file,      \* "absent" | "created" | "cleared" : the <output> file
    recon_calls,   \* number of times the solver was entered
    recon_input,   \* the image buffer as it was handed to the solver
    nscaled,       \* number of times the normalization step ran
    samples,       \* number of sampled points computed for the statistics
    divzero,       \* a division by zero was evaluated
    oob            \* a read or write outside an allocated buffer happened

vars == << pc, usegpu, psf, im_truth, use_tvnorm, conf,
           ksp_dims, dims, dims1, img_dims, pat_dims, img_truth_dims,
           kspace_data, sens_maps, pattern, image, image_truth,
           ksp_file, pat_alloc, scaling, minsize, l1op, l1prox, heap,
           res, nfree, out_file, recon_calls, recon_input, nscaled, samples, divzero, oob >>

-----------------------------------------------------------------------------
(* Bounds of the model *)

MaxDim == 2          \* largest size of the read-out axis of an input
MaxScale == 2        \* estimate_scaling returns a value in 0..MaxScale
MaxImg == 18         \* largest spatial size in the block-size specification

-----------------------------------------------------------------------------
(* Axes (misc/mri.h) *)

DIMS == 16
COIL_DIM == 3
MAPS_DIM == 4

Axes == 0 .. (DIMS - 1)
COIL_FLAG == {COIL_DIM}
MAPS_FLAG == {MAPS_DIM}
FFT_FLAGS == {0, 1, 2}

\* ~flags, as a set of axes
Not(flags) == Axes \ flags

Singleton == [a \in Axes |-> 1]

\* The axes on which the inputs of the model differ from 1: read-out, coil,
\* map axis and the first axis above the map axis.
SmallVals == {1, 2}
Shapes ==
    { [a \in Axes |-> IF a = 0 THEN x
                      ELSE IF a = COIL_DIM THEN c
                      ELSE IF a = MAPS_DIM THEN m
                      ELSE IF a = MAPS_DIM + 1 THEN e
                      ELSE 1] :
        x \in 1 .. MaxDim, c \in SmallVals, m \in SmallVals, e \in SmallVals }

-----------------------------------------------------------------------------
(* num/multind.c *)

RECURSIVE ProdUpTo(_, _)
ProdUpTo(d, n) == IF n = 0 THEN 1 ELSE d[n - 1] * ProdUpTo(d, n - 1)

\* md_calc_size: number of elements of an array of shape d
md_calc_size(d) == ProdUpTo(d, DIMS)

\* md_select_dims: keep the axes in flags, collapse the others to 1
md_select_dims(flags, idims) == [a \in Axes |-> IF a \in flags THEN idims[a] ELSE 1]

\* stride (in elements) of axis a, and the index along a of flat position i
Stride(d, a) == ProdUpTo(d, a)
IndexOf(d, a, i) == (i \div Stride(d, a)) % d[a]

Empty == [i \in {} |-> 0]
Fill(n, v) == [i \in 0 .. (n - 1) |-> v]

-----------------------------------------------------------------------------
(* Inputs *)

\* A k-space sample is the rational <<num, den>>; the other arrays hold integers.
Zero == << 0, 1 >>
One == << 1, 1 >>

\* Contents of a k-space file of shape d: nothing acquired, everything
\* acquired, or only the first read-out position acquired.
KspContents(d) ==
    LET n == md_calc_size(d)
    IN  { Fill(n, Zero), Fill(n, One),
          [i \in 0 .. (n - 1) |-> IF IndexOf(d, 0, i) = 0 THEN One ELSE Zero] }

\* Contents of a pattern file of shape d
PatContents(d) == { Fill(md_calc_size(d), 0), Fill(md_calc_size(d), 1) }

\* What uninitialised or foreign memory may hold
Garbage == {0, 1}

ArrayIds == {"kspace", "sens", "pattern", "image", "truth"}
ObjIds == {"tv", "ident", "wave", "thresh", "wthresh"}
ResIds == ArrayIds \cup ObjIds
NULL == "NULL"
NoObj == [kind |-> "none"]

\* bpsense_defaults and iter_admm_defaults (sense/bprecon.c, iter/iter.c);
\* the numbers stand for the library's defaults.
bpsense_defaults == [lambda |-> 0, eps |-> 1, rvc |-> FALSE, l1op_obj |-> NULL]
iter_admm_defaults == [maxiter |-> 50, rho |-> 1]

\* The option settings the model runs: none of -r -e -i -u -c, or all of them.
Tunings ==
    { [lambda |-> bpsense_defaults.lambda, eps |-> bpsense_defaults.eps,
       maxiter |-> iter_admm_defaults.maxiter, rho |-> 10, rvc |-> FALSE],
      [lambda |-> 1, eps |-> 2, maxiter |-> 0, rho |-> 1, rvc |-> TRUE] }

-----------------------------------------------------------------------------
(* main *)

Init ==
    /\ pc = "getopt"
    /\ usegpu = FALSE
    /\ psf = FALSE
    /\ im_truth = FALSE
    /\ use_tvnorm = FALSE
    /\ conf = [lambda |-> bpsense_defaults.lambda, eps |-> bpsense_defaults.eps,
               rvc |-> bpsense_defaults.rvc, l1op_obj |-> bpsense_defaults.l1op_obj,
               maxiter |-> iter_admm_defaults.maxiter, rho |-> 10]
    /\ ksp_dims = Singleton /\ dims = Singleton /\ dims1 = Singleton
    /\ img_dims = Singleton /\ pat_dims = Singleton /\ img_truth_dims = Singleton
    /\ kspace_data = Empty /\ sens_maps = Empty /\ pattern = Empty
    /\ image = Empty /\ image_truth = Empty
    /\ ksp_file = Empty
    /\ pat_alloc = 0
    /\ scaling = 0
    /\ minsize = Singleton
    /\ l1op = NULL /\ l1prox = NULL
    /\ heap = [o \in ObjIds |-> NoObj]
    /\ res = [r \in ResIds |-> "none"]
    /\ nfree = [r \in ResIds |-> 0]
    /\ out_file = "absent"
    /\ recon_calls = 0
    /\ recon_input = Empty
    /\ nscaled = 0
    /\ samples = 0
    /\ divzero = FALSE
    /\ oob = FALSE

\* lines 85-138: the option loop and the argument count check
ParseOptions ==
    /\ pc = "getopt"
    /\ \/ /\ \E g \in BOOLEAN, p \in BOOLEAN, f \in BOOLEAN, t \in BOOLEAN, o \in Tunings :
                /\ usegpu' = g /\ psf' = p /\ im_truth' = f /\ use_tvnorm' = t
                /\ conf' = [conf EXCEPT !.lambda = o.lambda, !.eps = o.eps,
                                        !.maxiter = o.maxiter, !.rho = o.rho,
                                        !.rvc = o.rvc]
          /\ pc' = "load_ksp"
       \/ /\ pc' \in {"usage", "help"}     \* unknown option or argc - optind != 3; -h
          /\ UNCHANGED << usegpu, psf, im_truth, use_tvnorm, conf >>
    /\ UNCHANGED << ksp_dims, dims, dims1, img_dims, pat_dims, img_truth_dims,
                    kspace_data, sens_maps, pattern, image, image_truth,
                    ksp_file, pat_alloc, scaling, minsize, l1op, l1prox, heap,
                    res, nfree, out_file, recon_calls, recon_input, nscaled, samples, divzero, oob >>

\* line 150: load_cfl of <kspace>; load_cfl ends the process when it fails
LoadKspace ==
    /\ pc = "load_ksp"
    /\ \/ \E d \in Shapes : \E f \in KspContents(d) :
            /\ ksp_dims' = d
            /\ kspace_data' = f
            /\ ksp_file' = f
            /\ res' = [res EXCEPT !["kspace"] = "live"]
            /\ pc' = "load_sens"
       \/ /\ pc' = "error"
          /\ UNCHANGED << ksp_dims, kspace_data, ksp_file, res >>
    /\ UNCHANGED << usegpu, psf, im_truth, use_tvnorm, conf,
                    dims, dims1, img_dims, pat_dims, img_truth_dims,
                    sens_maps, pattern, image, image_truth,
                    pat_alloc, scaling, minsize, l1op, l1prox, heap,
                    nfree, out_file, recon_calls, recon_input, nscaled, samples, divzero, oob >>

\* line 151: load_cfl of <sensitivities>
LoadSens ==
    /\ pc = "load_sens"
    /\ \/ \E d \in Shapes :
            /\ dims' = d
            /\ sens_maps' = Fill(md_calc_size(d), 1)
            /\ res' = [res EXCEPT !["sens"] = "live"]
            /\ pc' = "check_dims"
       \/ /\ pc' = "error"
          /\ UNCHANGED << dims, sens_maps, res >>
    /\ UNCHANGED << usegpu, psf, im_truth, use_tvnorm, conf,
                    ksp_dims, dims1, img_dims, pat_dims, img_truth_dims,
                    kspace_data, pattern, image, image_truth,
                    ksp_file, pat_alloc, scaling, minsize, l1op, l1prox, heap,
                    nfree, out_file, recon_calls, recon_input, nscaled, samples, divzero, oob >>

\* lines 153-159: the axes on which k-space and sensitivities are compared
CheckedAxes == 0 .. 3

DimsMatch == \A i \in CheckedAxes : ksp_dims[i] = dims[i]

CheckDims ==
    /\ pc = "check_dims"
    /\ pc' = IF DimsMatch THEN "assert_maps" ELSE "error"
    /\ UNCHANGED << usegpu, psf, im_truth, use_tvnorm, conf,
                    ksp_dims, dims, dims1, img_dims, pat_dims, img_truth_dims,
                    kspace_data, sens_maps, pattern, image, image_truth,
                    ksp_file, pat_alloc, scaling, minsize, l1op, l1prox, heap,
                    res, nfree, out_file, recon_calls, recon_input, nscaled, samples, divzero, oob >>

\* line 161: assert(1 == ksp_dims[MAPS_DIM])
MapsAssertion == 1 = ksp_dims[MAPS_DIM]

AssertMaps ==
    /\ pc = "assert_maps"
    /\ pc' = IF MapsAssertion THEN "select_dims" ELSE "abort"
    /\ UNCHANGED << usegpu, psf, im_truth, use_tvnorm, conf,
                    ksp_dims, dims, dims1, img_dims, pat_dims, img_truth_dims,
                    kspace_data, sens_maps, pattern, image, image_truth,
                    ksp_file, pat_alloc, scaling, minsize, l1op, l1prox, heap,
                    res, nfree, out_file, recon_calls, recon_input, nscaled, samples, divzero, oob >>

\* lines 180-181: the axes kept in dims1 and in img_dims
Dims1Flags == Not(COIL_FLAG \cup MAPS_FLAG)
\* fault variant of ImgFlags: the map axis is collapsed together with the coil axis
ImgFlags_DropMaps == Not(COIL_FLAG \cup MAPS_FLAG)
ImgFlags == Not(COIL_FLAG)

\* lines 164-181: num_init / num_init_gpu and the informational output change
\* no state of main; then the two md_select_dims calls
SelectDims ==
    /\ pc = "select_dims"
    /\ dims1' = md_select_dims(Dims1Flags, dims)
    /\ img_dims' = md_select_dims(ImgFlags, dims)
    /\ pc' = "pattern"
    /\ UNCHANGED << usegpu, psf, im_truth, use_tvnorm, conf,
                    ksp_dims, dims, pat_dims, img_truth_dims,
                    kspace_data, sens_maps, pattern, image, image_truth,
                    ksp_file, pat_alloc, scaling, minsize, l1op, l1prox, heap,
                    res, nfree, out_file, recon_calls, recon_input, nscaled, samples, divzero, oob >>

\* misc/mri.c estimate_pattern(N, dims, dim, pattern, kspace): an array of
\* shape dims with axis dim collapsed; an element is 1 where some position
\* along dim holds a nonzero sample, 0 elsewhere
PatternDims(kd, dim) == md_select_dims(Not({dim}), kd)

estimate_pattern(kd, dim, ksp) ==
    LET pd == PatternDims(kd, dim)
        Same(i, j) == \A a \in Axes \ {dim} : IndexOf(kd, a, i) = IndexOf(pd, a, j)
    IN  [j \in 0 .. (md_calc_size(pd) - 1) |->
            IF \E i \in DOMAIN ksp : Same(i, j) /\ ksp[i][1] # 0 THEN 1 ELSE 0]

\* Shapes of a pattern file: any read-out size, the other axes 1
PatShapes == { d \in Shapes : \A a \in Axes \ {0} : d[a] = 1 }

\* line 197: the shape of the buffer allocated for the estimated pattern
PatternAllocDims == dims1

\* lines 187-199: the pattern is loaded from the -p file, or allocated and
\* estimated.  The estimator writes md_calc_size(PatternDims(ksp_dims)) samples
\* from the start of the buffer: cells it does not reach keep what md_alloc
\* returned, and a write past the end of the buffer is undefined behaviour
\* (the process crashes or goes on).
InitPattern ==
    /\ pc = "pattern"
    /\ \/ /\ psf
          /\ \/ \E d \in PatShapes : \E f \in PatContents(d) :
                  /\ pat_dims' = d
                  /\ pattern' = f
                  /\ pat_alloc' = md_calc_size(d)
                  /\ res' = [res EXCEPT !["pattern"] = "live"]
                  /\ pc' = "stats"
             \/ /\ pc' = "error"
                /\ UNCHANGED << pat_dims, pattern, pat_alloc, res >>
          /\ UNCHANGED oob
       \/ /\ ~psf
          /\ LET n == md_calc_size(PatternAllocDims)
                 est == estimate_pattern(ksp_dims, COIL_DIM, kspace_data)
                 w == md_calc_size(PatternDims(ksp_dims, COIL_DIM))
             IN  /\ pat_alloc' = n
                 /\ \E g \in Garbage :
                      pattern' = [i \in 0 .. (n - 1) |-> IF i < w THEN est[i] ELSE g]
                 /\ oob' = (oob \/ w > n)
                 /\ pc' \in (IF w > n THEN {"stats", "crash"} ELSE {"stats"})
          /\ res' = [res EXCEPT !["pattern"] = "live"]
          /\ UNCHANGED pat_dims
    /\ UNCHANGED << usegpu, psf, im_truth, use_tvnorm, conf,
                    ksp_dims, dims, dims1, img_dims, img_truth_dims,
                    kspace_data, sens_maps, image, image_truth,
                    ksp_file, scaling, minsize, l1op, l1prox, heap,
                    nfree, out_file, recon_calls, recon_input, nscaled, samples, divzero >>

RECURSIVE SumSq(_, _)
SumSq(f, n) == IF n = 0 THEN 0 ELSE f[n - 1] * f[n - 1] + SumSq(f, n - 1)

\* line 206: (long)pow(md_znorm(N, dims1, pattern), 2.), reading T samples of
\* the pattern buffer; g is what the cells past the end of the buffer hold
Samples(T, g) ==
    IF T <= pat_alloc THEN SumSq(pattern, T)
    ELSE SumSq(pattern, pat_alloc) + (T - pat_alloc) * g * g

\* line 207: the operands of (float)T/(float)samples
AccDivisor(n) == n

\* lines 205-207: the statistics.  md_znorm reads md_calc_size(dims1) samples:
\* a read past the end of the pattern buffer is undefined behaviour.
Statistics ==
    /\ pc = "stats"
    /\ LET T == md_calc_size(dims1)
       IN  /\ \E g \in (IF T > pat_alloc THEN Garbage ELSE {0}) :
                /\ samples' = Samples(T, g)
                /\ divzero' = (divzero \/ AccDivisor(Samples(T, g)) = 0)
           /\ oob' = (oob \/ T > pat_alloc)
           /\ pc' \in (IF T > pat_alloc THEN {"fftmod", "crash"} ELSE {"fftmod"})
    /\ UNCHANGED << usegpu, psf, im_truth, use_tvnorm, conf,
                    ksp_dims, dims, dims1, img_dims, pat_dims, img_truth_dims,
                    kspace_data, sens_maps, pattern, image, image_truth,
                    ksp_file, pat_alloc, scaling, minsize, l1op, l1prox, heap,
                    res, nfree, out_file, recon_calls, recon_input, nscaled >>

\* num/fft.c fftmod: the sample at a position is multiplied by the centering
\* phase of the flagged axes, (-1)^(sum of the indices along them)
RECURSIVE SumIdx(_, _, _)
SumIdx(d, S, i) ==
    IF S = {} THEN 0
    ELSE LET a == CHOOSE x \in S : TRUE
         IN  IndexOf(d, a, i) + SumIdx(d, S \ {a}, i)

Phase(d, flags, i) == IF SumIdx(d, flags, i) % 2 = 0 THEN 1 ELSE -1

fftmod_q(d, flags, f) == [i \in DOMAIN f |-> << Phase(d, flags, i) * f[i][1], f[i][2] >>]
fftmod_z(d, flags, f) == [i \in DOMAIN f |-> Phase(d, flags, i) * f[i]]

\* lines 213-214
Fftmod ==
    /\ pc = "fftmod"
    /\ kspace_data' = fftmod_q(ksp_dims, FFT_FLAGS, kspace_data)
    /\ sens_maps' = fftmod_z(dims, FFT_FLAGS, sens_maps)
    /\ pc' = "scaling"
    /\ UNCHANGED << usegpu, psf, im_truth, use_tvnorm, conf,
                    ksp_dims, dims, dims1, img_dims, pat_dims, img_truth_dims,
                    pattern, image, image_truth,
                    ksp_file, pat_alloc, scaling, minsize, l1op, l1prox, heap,
                    res, nfree, out_file, recon_calls, recon_input, nscaled, samples, divzero, oob >>

\* num/flpmath.c md_zsmul with the factor 1 / s: every sample divided by s
Div(q, s) == IF q[1] = 0 THEN Zero ELSE << q[1], q[2] * s >>
md_zsmul_inv(f, s) == [i \in DOMAIN f |-> Div(f[i], s)]

\* fault variant of Normalized: the test for a zero scale is missing
Normalized_Unguarded(f, s) == md_zsmul_inv(f, s)
\* lines 224-225: the k-space data after the normalization with scale s
Normalized(f, s) == IF s # 0 THEN md_zsmul_inv(f, s) ELSE f

\* lines 220-225: estimate_scaling returns some scale; the data is divided by
\* it unless it is zero
ApplyScaling ==
    /\ pc = "scaling"
    /\ \E s \in 0 .. MaxScale :
         /\ scaling' = s
         /\ kspace_data' = Normalized(kspace_data, s)
    /\ nscaled' = nscaled + 1
    /\ pc' = "l1"
    /\ UNCHANGED << usegpu, psf, im_truth, use_tvnorm, conf,
                    ksp_dims, dims, dims1, img_dims, pat_dims, img_truth_dims,
                    sens_maps, pattern, image, image_truth,
                    ksp_file, pat_alloc, minsize, l1op, l1prox, heap,
                    res, nfree, out_file, recon_calls, recon_input, samples, divzero, oob >>

MIN(a, b) == IF a < b THEN a ELSE b

\* lines 231-234: the minimum block size of the wavelet operators
BlockSize == 16
BlockAxes == {0, 1, 2}
\* fault variant of MinSize: the block size is not clamped to the image size
MinSize_Unclamped(id) == [a \in Axes |-> IF a \in BlockAxes THEN BlockSize ELSE 1]
MinSize(id) == [a \in Axes |-> IF a \in BlockAxes THEN MIN(id[a], BlockSize) ELSE 1]

\* linops/tv.c: the gradient maps an array of shape d to one with an added
\* axis DIMS holding one difference per flagged axis
TvCodomain(d, flags) == [a \in 0 .. DIMS |-> IF a = DIMS THEN Cardinality(flags) ELSE d[a]]
tv_init(d, flags) == [kind |-> "grad", dims |-> d, flags |-> flags]
linop_codomain(op) == IF op.kind = "grad" THEN TvCodomain(op.dims, op.flags) ELSE op.dims

\* lines 241 and 248: the strength the proximal operators are created with
ProxLambda == 1
\* line 245
RandShift == TRUE
\* fault variant of TvProxDims: the threshold is created on the image shape
TvProxDims_Domain(op) == op.dims
\* line 241: the shape the threshold operator of the TV branch is created on
TvProxDims(op) == linop_codomain(op)
\* line 242: the operator recorded in the configuration in the TV branch
TvConfObj(op) == op
\* line 247: the object wavelet_create returns for the configuration
WaveConfObj == "wave"

\* lines 231-249: minsize, then the analysis and proximal operator
CreateL1 ==
    /\ pc = "l1"
    /\ minsize' = MinSize(img_dims)
    /\ \/ /\ use_tvnorm
          /\ l1op' = "tv"
          /\ l1prox' = "thresh"
          /\ heap' = [heap EXCEPT
                !["tv"] = tv_init(img_dims, FFT_FLAGS),
                !["thresh"] = [kind |-> "thresh",
                               dims |-> TvProxDims(tv_init(img_dims, FFT_FLAGS)),
                               lambda |-> ProxLambda, flags |-> {}, gpu |-> usegpu]]
          /\ conf' = [conf EXCEPT !.l1op_obj = TvConfObj(l1op')]
          /\ res' = [res EXCEPT !["tv"] = "live", !["thresh"] = "live"]
       \/ /\ ~use_tvnorm
          /\ l1op' = "ident"
          /\ l1prox' = "wthresh"
          /\ heap' = [heap EXCEPT
                !["ident"] = [kind |-> "identity", dims |-> img_dims],
                ![WaveConfObj] = [kind |-> "wavelet", dims |-> img_dims, flags |-> FFT_FLAGS,
                                  minsize |-> minsize', randshift |-> FALSE, gpu |-> usegpu],
                !["wthresh"] = [kind |-> "wavethresh", dims |-> img_dims, flags |-> FFT_FLAGS,
                                minsize |-> minsize', lambda |-> ProxLambda,
                                randshift |-> RandShift, gpu |-> usegpu]]
          /\ conf' = [conf EXCEPT !.l1op_obj = WaveConfObj]
          /\ res' = [res EXCEPT !["ident"] = "live", ![WaveConfObj] = "live",
                                !["wthresh"] = "live"]
    /\ pc' = "create_image"
    /\ UNCHANGED << usegpu, psf, im_truth, use_tvnorm,
                    ksp_dims, dims, dims1, img_dims, pat_dims, img_truth_dims,
                    kspace_data, sens_maps, pattern, image, image_truth,
                    ksp_file, pat_alloc, scaling,
                    nfree, out_file, recon_calls, recon_input, nscaled, samples, divzero, oob >>

\* line 255: create_cfl of <output>; the mapping holds whatever the file held
CreateImage ==
    /\ pc = "create_image"
    /\ \/ /\ \E g \in Garbage : image' = Fill(md_calc_size(img_dims), g)
          /\ out_file' = "created"
          /\ res' = [res EXCEPT !["image"] = "live"]
          /\ pc' = "clear_image"
       \/ /\ pc' = "error"
          /\ UNCHANGED << image, out_file, res >>
    /\ UNCHANGED << usegpu, psf, im_truth, use_tvnorm, conf,
                    ksp_dims, dims, dims1, img_dims, pat_dims, img_truth_dims,
                    kspace_data, sens_maps, pattern, image_truth,
                    ksp_file, pat_alloc, scaling, minsize, l1op, l1prox, heap,
                    nfree, recon_calls, recon_input, nscaled, samples, divzero, oob >>

\* num/multind.c md_clear
md_clear(f) == [i \in DOMAIN f |-> 0]

\* fault variant of ClearedImage: the md_clear call is missing
ClearedImage_Skipped(f) == f
\* line 257
ClearedImage(f) == md_clear(f)

ClearImage ==
    /\ pc = "clear_image"
    /\ image' = ClearedImage(image)
    /\ out_file' = "cleared"
    /\ pc' = "load_truth"
    /\ UNCHANGED << usegpu, psf, im_truth, use_tvnorm, conf,
                    ksp_dims, dims, dims1, img_dims, pat_dims, img_truth_dims,
                    kspace_data, sens_maps, pattern, image_truth,
                    ksp_file, pat_alloc, scaling, minsize, l1op, l1prox, heap,
                    res, nfree, recon_calls, recon_input, nscaled, samples, divzero, oob >>

\* Contents of a truth image file (of the shape of the image)
TruthVals == {1, 2}

\* lines 259-263: the truth image is loaded when -F was given
LoadTruth ==
    /\ pc = "load_truth"
    /\ \/ /\ im_truth
          /\ \/ \E v \in TruthVals :
                  /\ img_truth_dims' = img_dims
                  /\ image_truth' = Fill(md_calc_size(img_dims), v)
                  /\ res' = [res EXCEPT !["truth"] = "live"]
                  /\ pc' = "recon"
             \/ /\ pc' = "error"
                /\ UNCHANGED << img_truth_dims, image_truth, res >>
       \/ /\ ~im_truth
          /\ pc' = "recon"
          /\ UNCHANGED << img_truth_dims, image_truth, res >>
    /\ UNCHANGED << usegpu, psf, im_truth, use_tvnorm, conf,
                    ksp_dims, dims, dims1, img_dims, pat_dims,
                    kspace_data, sens_maps, pattern, image,
                    ksp_file, pat_alloc, scaling, minsize, l1op, l1prox, heap,
                    nfree, out_file, recon_calls, recon_input, nscaled, samples, divzero, oob >>

\* sense/bprecon.c bpsense_recon / bpsense_recon_gpu: the solver starts from
\* the image it is given and runs maxiter iterations; with no iteration the
\* image is returned as it was given
SolverResults(img, maxiter) ==
    IF maxiter = 0 THEN {img} ELSE { [i \in DOMAIN img |-> v] : v \in Garbage }

\* line 270 / 275: the image buffer passed to the solver
ReconImage == image

\* lines 268-275: with -g the solver runs only in a build with USE_CUDA;
\* otherwise assert(0)
CallRecon ==
    /\ pc = "recon"
    /\ \E USE_CUDA \in BOOLEAN :
         \/ /\ usegpu /\ ~USE_CUDA
            /\ pc' = "abort"
            /\ UNCHANGED << image, recon_calls, recon_input >>
         \/ /\ ~usegpu \/ USE_CUDA
            /\ image' \in SolverResults(ReconImage, conf.maxiter)
            /\ recon_calls' = recon_calls + 1
            /\ recon_input' = ReconImage
            /\ pc' = "cleanup"
    /\ UNCHANGED << usegpu, psf, im_truth, use_tvnorm, conf,
                    ksp_dims, dims, dims1, img_dims, pat_dims, img_truth_dims,
                    kspace_data, sens_maps, pattern, image_truth,
                    ksp_file, pat_alloc, scaling, minsize, l1op, l1prox, heap,
                    res, nfree, out_file, nscaled, samples, divzero, oob >>

\* lines 280-293: what the cleanup releases, in order
CleanupList ==
    << "pattern", l1prox, l1op >>
      \o (IF ~use_tvnorm THEN << conf.l1op_obj >> ELSE << >>)
      \o << "sens", "kspace", "image" >>

Count(seq, r) == Cardinality({ k \in DOMAIN seq : seq[k] = r })

\* lines 280-298: cleanup and exit(0)
Cleanup ==
    /\ pc = "cleanup"
    /\ LET rel == CleanupList
       IN  /\ nfree' = [r \in ResIds |-> nfree[r] + Count(rel, r)]
           /\ res' = [r \in ResIds |-> IF Count(rel, r) > 0 THEN "released" ELSE res[r]]
    /\ pc' = "exit0"
    /\ UNCHANGED << usegpu, psf, im_truth, use_tvnorm, conf,
                    ksp_dims, dims, dims1, img_dims, pat_dims, img_truth_dims,
                    kspace_data, sens_maps, pattern, image, image_truth,
                    ksp_file, pat_alloc, scaling, minsize, l1op, l1prox, heap,
                    out_file, recon_calls, recon_input, nscaled, samples, divzero, oob >>

Next ==
    \/ ParseOptions
    \/ LoadKspace
    \/ LoadSens
    \/ CheckDims
    \/ AssertMaps
    \/ SelectDims
    \/ InitPattern
    \/ Statistics
    \/ Fftmod
    \/ ApplyScaling
    \/ CreateL1
    \/ CreateImage
    \/ ClearImage
    \/ LoadTruth
    \/ CallRecon
    \/ Cleanup

Spec == Init /\ [][Next]_vars

-----------------------------------------------------------------------------
(* The block-size computation on its own: main at line 231 with an image    *)
(* shape whose spatial sizes range over 1 .. MaxImg.                        *)

BlockShapes ==
    { [a \in Axes |-> IF a = 0 THEN x ELSE IF a = 1 THEN y ELSE IF a = 2 THEN z ELSE 1] :
        x \in 1 .. MaxImg, y \in 1 .. MaxImg, z \in 1 .. MaxImg }

InitBlock ==
    /\ pc = "l1"
    /\ usegpu = FALSE
    /\ psf = FALSE
    /\ im_truth = FALSE
    /\ use_tvnorm \in BOOLEAN
    /\ conf = [lambda |-> bpsense_defaults.lambda, eps |-> bpsense_defaults.eps,
               rvc |-> bpsense_defaults.rvc, l1op_obj |-> bpsense_defaults.l1op_obj,
               maxiter |-> iter_admm_defaults.maxiter, rho |-> 10]
    /\ dims \in BlockShapes
    /\ ksp_dims = dims
    /\ dims1 = md_select_dims(Dims1Flags, dims)
    /\ img_dims = md_select_dims(ImgFlags, dims)
    /\ pat_dims = Singleton /\ img_truth_dims = Singleton
    /\ kspace_data = Empty /\ sens_maps = Empty /\ pattern = Empty
    /\ image = Empty /\ image_truth = Empty
    /\ ksp_file = Empty
    /\ pat_alloc = 0
    /\ scaling = 0
    /\ minsize = Singleton
    /\ l1op = NULL /\ l1prox = NULL
    /\ heap = [o \in ObjIds |-> NoObj]
    /\ res = [r \in ResIds |-> "none"]
    /\ nfree = [r \in ResIds |-> 0]
    /\ out_file = "absent"
    /\ recon_calls = 0
    /\ recon_input = Empty
    /\ nscaled = 1
    /\ samples = 0
    /\ divzero = FALSE
    /\ oob = FALSE

NextBlock == CreateL1

SpecBlock == InitBlock /\ [][NextBlock]_vars

-----------------------------------------------------------------------------
(* Properties *)

AllZero(f) == \A i \in DOMAIN f : f[i] = 0

\* Positions after the normalization step
PostScaling == {"l1", "create_image", "clear_image", "load_truth", "recon", "cleanup", "exit0"}

\* C1: a run that ends in a fatal configuration or resource error (usage
\* error, failed load or create, failed shape check, failed assertion) has
\* neither created or cleared the output image nor entered the solver.
C1_FatalBeforeOutput ==
    pc \in {"usage", "error", "abort"} => (out_file = "absent" /\ recon_calls = 0)

\* The shape the pattern buffer really has
PatternShape == IF psf THEN pat_dims ELSE PatternDims(ksp_dims, COIL_DIM)

\* C2: whenever the solver has been called, k-space, sensitivity maps and the
\* pattern (estimated or loaded with -p) agree on the spatial axes and are
\* compatible on the coil axis.
C2_ShapesCompatibleAtSolver ==
    recon_calls > 0 =>
        /\ \A a \in 0 .. 3 : ksp_dims[a] = dims[a]
        /\ \A a \in 0 .. 2 : PatternShape[a] = ksp_dims[a]
        /\ PatternShape[COIL_DIM] \in {1, ksp_dims[COIL_DIM]}

\* C3 (as claimed): on every run that reaches the solver the output image
\* has the input shape with the coil axis and the map axis both reduced to 1.
C3_MapAxisReduced ==
    recon_calls > 0 =>
        \A a \in Axes : img_dims[a] = (IF a \in {COIL_DIM, MAPS_DIM} THEN 1 ELSE dims[a])

\* C3 (amended): once the output image is created it has the shape of the
\* sensitivity maps with the coil axis alone set to 1; the map axis and all
\* other axes keep the size they have in the sensitivity maps.
C3_ImageShape ==
    out_file # "absent" =>
        /\ \A a \in Axes : img_dims[a] = (IF a = COIL_DIM THEN 1 ELSE dims[a])
        /\ DOMAIN image = 0 .. (md_calc_size(img_dims) - 1)

C3_Witness ==
    /\ recon_calls > 0
    /\ dims[MAPS_DIM] = 2 /\ dims[COIL_DIM] = 2 /\ img_dims[MAPS_DIM] = 2

\* C4: the image handed to the solver is all zeros whatever truth image was
\* loaded, the truth image is not stored in the configuration, and with
\* maxiter = 0 the image at exit is still the zero image.
C4_ZeroInitialEstimate ==
    /\ pc = "recon" => AllZero(image)
    /\ recon_calls > 0 =>
          /\ AllZero(recon_input)
          /\ DOMAIN recon_input = 0 .. (md_calc_size(img_dims) - 1)
          /\ conf.l1op_obj \in ObjIds
    /\ (pc \in {"cleanup", "exit0"} /\ conf.maxiter = 0) => AllZero(image)

C4_Witness ==
    /\ pc = "exit0" /\ im_truth /\ conf.maxiter = 0
    /\ res["truth"] = "live" /\ ~AllZero(image_truth)
    /\ md_calc_size(img_dims) > 1

\* C5: normalization runs exactly once, after fftmod and before the solver;
\* afterwards every k-space sample is the un-centered input sample, divided
\* by the scale unless the scale is zero; the step leaves sensitivity maps,
\* pattern and image as they were.
C5_NormalizedOnce ==
    /\ [](/\ nscaled <= 1
          /\ pc \in PostScaling => nscaled = 1
          /\ recon_calls > 0 => nscaled = 1
          /\ pc \in {"fftmod", "scaling"} => nscaled = 0
          /\ nscaled = 1 =>
               LET m == fftmod_q(ksp_dims, FFT_FLAGS, ksp_file)
               IN  /\ DOMAIN kspace_data = DOMAIN ksp_file
                   /\ \A i \in DOMAIN ksp_file :
                        kspace_data[i] = IF scaling = 0 \/ m[i][1] = 0 THEN m[i]
                                         ELSE << m[i][1], scaling >>)
    /\ [][nscaled' # nscaled =>
            /\ pc = "scaling"
            /\ sens_maps' = sens_maps /\ pattern' = pattern /\ image' = image]_vars

C5_Witness ==
    /\ pc = "recon" /\ scaling = 2
    /\ \E i \in DOMAIN kspace_data : kspace_data[i][1] # 0 /\ kspace_data[i][2] = 2

\* C6: after the factory the operators form a consistent pair with proximal
\* strength 1: with -t the gradient over the spatial axes, the threshold on
\* its codomain shape and conf.l1op_obj the same object; without -t the
\* identity on the image shape, the wavelet threshold on the image shape with
\* random shifts, and conf.l1op_obj a separate wavelet operator.
C6_FactoryPair ==
    pc \in (PostScaling \ {"l1"}) =>
        /\ heap[l1prox].lambda = 1
        /\ use_tvnorm =>
              /\ heap[l1op].kind = "grad" /\ heap[l1op].dims = img_dims
              /\ heap[l1op].flags = {0, 1, 2}
              /\ heap[l1prox].kind = "thresh"
              /\ heap[l1prox].dims =
                    [a \in 0 .. DIMS |-> IF a = DIMS THEN 3 ELSE img_dims[a]]
              /\ conf.l1op_obj = l1op
        /\ ~use_tvnorm =>
              /\ heap[l1op].kind = "identity" /\ heap[l1op].dims = img_dims
              /\ heap[l1prox].kind = "wavethresh" /\ heap[l1prox].dims = img_dims
              /\ heap[l1prox].randshift = TRUE
              /\ conf.l1op_obj # l1op
              /\ heap[conf.l1op_obj].kind = "wavelet"
              /\ heap[conf.l1op_obj].dims = img_dims

C6_Witness ==
    /\ pc = "recon" /\ use_tvnorm /\ conf.lambda = 1 /\ conf.rho = 1
    /\ img_dims[0] = 2 /\ conf.l1op_obj = "tv"

\* C7: with an all-zero pattern no step divides by zero.
C7_NoDivisionByZero ==
    (pc \in ({"fftmod", "scaling"} \cup PostScaling) /\ ~oob /\ AllZero(pattern)) => ~divzero

\* C8: at the successful exit every array and operator that was acquired has
\* been released exactly once, and nothing was released before the solver
\* returned.
C8_ReleasedOnce ==
    /\ pc = "exit0" =>
          \A r \in ResIds : res[r] # "none" => (res[r] = "released" /\ nfree[r] = 1)
    /\ pc # "exit0" => \A r \in ResIds : nfree[r] = 0

\* C9: the minimum block size is min(img_dims[i], 16) on the three spatial
\* axes and 1 elsewhere, so it is at least 1 and at most the image size.
C9_BlockSize ==
    pc = "create_image" =>
        /\ \A a \in Axes :
              /\ minsize[a] = (IF a \in {0, 1, 2}
                               THEN (IF img_dims[a] <= 16 THEN img_dims[a] ELSE 16)
                               ELSE 1)
              /\ 1 <= minsize[a] /\ minsize[a] <= img_dims[a]
        /\ ~use_tvnorm => (heap["wave"].minsize = minsize /\ heap["wthresh"].minsize = minsize)

C9_Witness ==
    /\ pc = "create_image" /\ ~use_tvnorm
    /\ img_dims[0] > 16 /\ img_dims[1] < 16 /\ img_dims[2] = 16
    /\ minsize[0] = 16 /\ minsize[1] = img_dims[1]

\* C10: when the pattern is estimated, the buffer allocated for it (shape
\* dims1) has the shape the estimator writes, the k-space shape with the coil
\* axis set to 1, so no write falls outside the buffer.
C10_PatternBufferFits ==
    (~psf /\ res["pattern"] # "none") =>
        /\ \A a \in Axes : dims1[a] = (IF a = COIL_DIM THEN 1 ELSE ksp_dims[a])
        /\ ~oob

====
